---- MODULE Spec2Model ----
(***************************************************************************)
(* Reconnection-aware RPC session layer of cliskDevRunner.                 *)
(*                                                                         *)
(* The worker page navigates; WorkerService.handleUrlChange tears down and *)
(* rebuilds the worker Session and settles a shared reconnection promise;  *)
(* PilotService.executeWithUrlChangeRetry wraps the pilot-to-worker        *)
(* command runInWorker and retries it around navigations.                  *)
(*                                                                         *)
(* One step of the model is one run-to-completion segment of the Node.js   *)
(* event loop: the synchronous code up to the next await that needs an     *)
(* external event, together with the promise continuations (microtasks)    *)
(* that the segment makes runnable.                                        *)
(***************************************************************************)
EXTENDS Naturals, Integers, Sequences, FiniteSets, TLC

\* ---------------------------------------------------------------- bounds
\* Number of main-frame navigations of the worker page, and of
\* handleUrlChange runs, explored.
MaxNav == 3
\* Number of handleUrlChange runs (with the handshakes they started) that are
\* under way at the same time.
MaxOverlap == 2
\* Number of command invocations that are under way at the same time.
NumCmds == 1
\* Number of successive setWorkerState calls explored.
MaxRounds == 2
\* Number of CliskPage.close() calls on the worker page.
MaxClose == 2
\* Number of ping calls the connector of one page makes.
MaxPings == 1
\* Number of framenavigated listeners registered on the worker page.
MaxListeners == 2
\* Number of stop() calls on the launcher.
MaxStop == 2
\* Number of workerEvents the worker connector emits.
MaxEvents == 2
\* Number of navigations of the pilot page.
MaxPilotNav == 2
\* Number of init() calls on one CliskPage.
MaxInit == 2
\* Number of entries of one localSaveFiles call.
MaxEntries == 2
\* Number of sub-frame navigations of the worker page.
MaxSubFrameNav == 1

\* ------------------------------------------------------ program constants
\* executeWithUrlChangeRetry: const maxRetries = 3
maxRetries == 3

Cmds == 1..NumCmds

\* URLs are numbers: 0 is about:blank, n > 0 the n-th distinct site URL as the
\* browser reports it (normalized, "https://site/"), -n a spelling of the same
\* URL that is not normalized ("https://site").
Blank == 0

\* What page.url() reports after page.goto(url): the browser's spelling.
Href(url) == IF url < 0 THEN -url ELSE url

normalizeUrl_Raw(url) == url

\* normalizeUrl of _setWorkerState: new URL(url).href
normalizeUrl(url) == IF url < 0 THEN -url ELSE url

\* The functions page.exposeFunction registers on a page.
BridgeNames == {"sendToPlaywright", "sendPageLog"}

VARIABLES
    pageUrl,                    \* page.url() of the worker page
    pageState,                  \* "open" | "closed"
    ctxGen,                     \* execution context of the page: one per navigation
    connectorCtx,               \* context the connector code was last injected in
    isMonitoringEnabled,        \* WorkerService.isMonitoringEnabled
    currentUrl,                 \* WorkerService.currentUrl
    connection,                 \* CliskPage.connection: session id, 0 = null
    sessions,                   \* every Session built so far: [closed, ctx]
    messageHandler,             \* CliskPage.messageHandler: 0 = null, s > 0 the
                                \* Dispatcher of session s, -r the handshake
                                \* dispatcher of run r
    currentReconnectionPromise, \* the promise object the field holds (id 0: null)
    reconnectionResolve,        \* id of the promise whose resolve/reject are stored
    runs,                       \* every handleUrlChange run started so far
    cmds,                       \* the runInWorker invocations
    stopped,                    \* PlaywrightLauncher.stop() has run
    emitted,                    \* what a listener registered on the WorkerService
                                \* has counted: [on, success, error, urlChange, start]
    closeOp,                    \* CliskPage.close() of the worker page: [pc, calls]
    isInitialized,              \* CliskPage.isInitialized of the worker page
    pages,                      \* the two CliskPages and their connectors while
                                \* PlaywrightLauncher.init() runs the handshakes
    wire,                       \* messages posted and not yet delivered
    subFrameUrl,                \* the URL of the worker page's sub-frame
    listeners,                  \* the framenavigated listeners of the worker page:
                                \* [n registered, left to run for the navigation
                                \* being dispatched, ran: history, the runs of a
                                \* listener after the first]
    launcher,                   \* the PlaywrightLauncher: its fields and how far
                                \* init() and stop() have come
    forwarding                  \* the workerEvent forwarding of a PilotService:
                                \* [on, att, events, lastFwd, lastQuiet]

vars == <<pageUrl, pageState, ctxGen, connectorCtx, isMonitoringEnabled, currentUrl,
          connection, sessions, messageHandler, currentReconnectionPromise,
          reconnectionResolve, runs, cmds, stopped, emitted, closeOp, isInitialized,
          pages, wire, subFrameUrl, listeners,
          launcher, forwarding>>

pageVars == <<pageUrl, pageState, ctxGen>>
promiseVars == <<currentReconnectionPromise, reconnectionResolve>>
closeVars == <<closeOp, isInitialized>>
initVars == <<pages, wire>>
\* what the handshakes of PlaywrightLauncher.init() leave alone
afterInitVars == <<pageUrl, pageState, ctxGen, connectorCtx, isMonitoringEnabled,
                   currentUrl, connection, sessions, messageHandler,
                   currentReconnectionPromise, reconnectionResolve, runs, cmds, stopped,
                   emitted, closeOp, isInitialized, subFrameUrl, listeners,
                   launcher, forwarding>>

\* ------------------------------------------------------------- promises
\* Only the promise currentReconnectionPromise holds is kept: an earlier one is
\* settled and nothing waits for it any more when the field is overwritten.
NoPromise ==
    [id |-> 0, state |-> "none", settled |-> FALSE, reason |-> "none",
     settleCalls |-> 0, sessCount |-> 0, run |-> 0]

\* new Promise(...) with its settled marker, worker-service.js 152-156.
\* run is history too: the handleUrlChange run that created the promise.
\* settleCalls and sessCount are history: the calls of resolve/reject so far, and
\* the number of Sessions that existed when the promise was created.
NewPromise(P) ==
    [id |-> P.id + 1, state |-> "pending", settled |-> FALSE, reason |-> "none",
     settleCalls |-> 0, sessCount |-> Len(sessions), run |-> Len(runs) + 1]

\* A call of the stored resolve (kind "resolved") or reject (kind "rejected")
\* function, which belong to promise tgt: only the first call changes the promise.
SettlePromise(P, tgt, kind, why) ==
    IF tgt # P.id THEN P
    ELSE IF P.state = "pending"
         THEN [P EXCEPT !.state = kind, !.reason = why, !.settleCalls = 1]
         ELSE [P EXCEPT !.settleCalls = 2]

\* currentReconnectionPromise.settled = true
MarkSettled(P) == [P EXCEPT !.settled = TRUE]

\* ------------------------------------------------- pilot: runInWorker
\* What an invocation ends with. kind "ok" is the remote method's result; every
\* other kind is a rejection.
Outcome(kind) == [kind |-> kind, command |-> "", count |-> 0]
Exhausted_Anonymous(commandName) == [kind |-> "Exhausted", command |-> "", count |-> 0]

\* new Error(`${commandName} failed after ${maxRetries} retries due to URL changes`)
Exhausted(commandName) == [kind |-> "Exhausted", command |-> commandName, count |-> maxRetries]

IdleCmd ==
    [pc |-> "idle", retryCount |-> 0, calls |-> 0, sess |-> 0, waitOn |-> 0,
     result |-> Outcome("none"), urlListener |-> FALSE, listening |-> FALSE,
     timer |-> FALSE,
     \* the command: its name and, for setWorkerState, the url of its state
     command |-> "runInWorker", target |-> Blank,
     \* for localSaveFiles: the number of entries, and of entries saved
     entries |-> 0, entry |-> 0,
     \* the url field of the result setWorkerState resolves with
     resultUrl |-> Blank,
     \* history, read only by the properties
     round |-> 1, navs |-> 0, cause |-> "none", atUrl |-> FALSE, busy |-> FALSE,
     prevTarget |-> Blank, prevNavs |-> 0, prevOk |-> FALSE, ctx0 |-> 0, runs0 |-> 0,
     quiet |-> FALSE,
     episode |-> 0, sessAtEpisode |-> 0, firstSess |-> 0,
     fnErr |-> "none", fnErrCalls |-> 0, preempts |-> 0, reconnOk |-> 0,
     atStop |-> FALSE]

Finish(c, res) ==
    [c EXCEPT !.pc = "done", !.result = res, !.urlListener = FALSE,
              !.listening = FALSE, !.timer = FALSE, !.sess = 0, !.waitOn = 0]

IsUrlChangeError_Any(err) == TRUE

\* error.message.startsWith('URL_CHANGE_DETECTED') || includes('Execution context
\* was destroyed') || startsWith('EXECUTION_CONTEXT_DESTROYED')
IsUrlChangeError(err) == err \in {"UrlChange", "CtxDestroyed"}

\* The catch block of executeWithUrlChangeRetry up to its await: a URL-change
\* class error starts waitForReconnectionAfterUrlChange (two once-listeners and a
\* 30 s timer), any other error is thrown at once.
Catch(c, err) ==
    IF IsUrlChangeError(err)
    THEN [c EXCEPT !.pc = "reconn", !.retryCount = @ + 1, !.urlListener = FALSE,
                   !.listening = TRUE, !.timer = TRUE, !.sess = 0, !.waitOn = 0]
    ELSE [Finish(c, Outcome(err)) EXCEPT !.retryCount = @ + 1]

\* An error thrown by the command function itself (history: fnErr).
FnThrows(c, err) ==
    Catch([c EXCEPT !.fnErr = err, !.fnErrCalls = c.calls,
                    !.preempts = IF err = "CtxDestroyed" THEN @ + 1 ELSE @], err)

SetWorkerStateFn_AlwaysGoto(d, url) ==
    [d EXCEPT !.pc = "goto", !.urlListener = TRUE, !.navs = @ + 1]

\* The command function of _setWorkerState up to its first await: the
\* already-at-URL short-circuit, or page.goto(url) is called.
SetWorkerStateFn(d, url) ==
    IF normalizeUrl(url) = normalizeUrl(d.target)
    THEN [Finish(d, Outcome("ok")) EXCEPT !.resultUrl = normalizeUrl(url)]
    ELSE [d EXCEPT !.pc = "goto", !.urlListener = TRUE, !.navs = @ + 1]

\* The race of commandFn() against the url-change listener. The command function
\* of runInWorker reads the worker's connection and issues the remote call; that
\* of setWorkerState reads the page's URL.
Issue(c, conn) ==
    LET d == [c EXCEPT !.calls = @ + 1, !.waitOn = 0] IN
    IF c.command = "setWorkerState"
    THEN SetWorkerStateFn(d, pageUrl)
    ELSE IF conn = 0
         THEN FnThrows(d, "NoConnection")
         ELSE [d EXCEPT !.pc = "call", !.sess = conn, !.urlListener = TRUE,
                        !.firstSess = IF c.calls = 0 THEN conn ELSE @]

\* waitForReconnectionIfInProgress: is there a promise to await?
\* (reconnectionPromise && !reconnectionPromise.settled; the sentinel
\* Promise.resolve(true) is awaited too and resolves at once)
MustAwait(P) == P.id # 0 /\ ~P.settled

\* One iteration of the while loop of executeWithUrlChangeRetry up to its first
\* await that does not complete at once.
Attempt(c, P, conn) ==
    IF MustAwait(P)
    THEN CASE P.state = "pending"  -> [c EXCEPT !.pc = "wait", !.waitOn = P.id]
           [] P.state = "resolved" -> Issue(c, conn)
           [] P.state = "rejected" -> Catch(c, P.reason)
    ELSE Issue(c, conn)

RetryOrGiveUp_Unbounded(c, P, conn) ==
    IF MustAwait(P)
    THEN CASE P.state = "pending"  -> [c EXCEPT !.pc = "wait", !.waitOn = P.id]
           [] P.state = "resolved" -> Issue(c, conn)
           [] P.state = "rejected" -> Catch(c, P.reason)
    ELSE Issue(c, conn)

\* After waitForReconnectionAfterUrlChange has resolved: exhaustion check, or
\* continue with the next iteration.
RetryOrGiveUp(c, P, conn) ==
    IF c.retryCount >= maxRetries
    THEN Finish(c, Exhausted(c.command))
    ELSE Attempt(c, P, conn)

\* runInWorker after its 500 ms sleep: waitForReconnectionIfInProgress outside
\* the retry loop (a rejection rejects the invocation), then the loop.
AfterSleep(c, P, conn) ==
    IF MustAwait(P)
    THEN CASE P.state = "pending"  -> [c EXCEPT !.pc = "prewait", !.waitOn = P.id]
           [] P.state = "resolved" -> Attempt(c, P, conn)
           [] P.state = "rejected" -> Finish(c, Outcome(P.reason))
    ELSE Attempt(c, P, conn)

\* The command function of _setWorkerState after workerPage.navigate(url): it
\* awaits getReconnectionPromise(). A rejection is thrown again as
\* 'Worker reconnection failed: ' + message, which keeps the words of a
\* context-destroyed error.
AwaitedOutcome(c, P) ==
    CASE P.id = 0 \/ P.state = "resolved" ->
            [Finish(c, Outcome("ok")) EXCEPT !.resultUrl = c.target]
      [] P.state = "pending" -> [c EXCEPT !.pc = "await", !.waitOn = P.id]
      [] P.state = "rejected" ->
            FnThrows([c EXCEPT !.cause = P.reason],
                     IF P.reason = "CtxDestroyed" THEN "CtxDestroyed"
                     ELSE "WorkerReconnectionFailed")

\* localSaveFiles after waitForReconnectionIfInProgress: workerConnection is
\* read, once, and fs.mkdir is awaited.
SaveFilesRead(c, conn) ==
    IF conn = 0
    THEN Finish(c, Outcome("NoConnection"))
    ELSE [c EXCEPT !.pc = "mkdir", !.sess = conn, !.waitOn = 0]

\* localSaveFiles from its first line to its first await that does not
\* complete at once.
SaveFilesStart(c, P, conn) ==
    IF MustAwait(P)
    THEN CASE P.state = "pending"  -> [c EXCEPT !.pc = "sfwait", !.waitOn = P.id]
           [] P.state = "resolved" -> SaveFilesRead(c, conn)
           [] P.state = "rejected" -> Finish(c, Outcome(P.reason))
    ELSE SaveFilesRead(c, conn)

\* The for loop of localSaveFiles at its head: the next entry's
\* workerConnection.remoteHandle().call('downloadFileInWorker', entry), through
\* the reference read before the loop, or the end of the method.
SaveFilesLoop(c) ==
    IF c.entry < c.entries
    THEN [c EXCEPT !.pc = "sfcall", !.calls = @ + 1]
    ELSE Finish(c, Outcome("ok"))

React_RetryOnError(c, P, conn, evUrl, evSucc, evErr) ==
    CASE c.pc \in {"call", "goto", "loaded", "await"} /\ c.urlListener /\ evUrl ->
            Catch([c EXCEPT !.preempts = @ + 1], "UrlChange")
      [] c.pc = "reconn" /\ c.listening /\ (evSucc \/ evErr # "none") ->
            RetryOrGiveUp([c EXCEPT !.listening = FALSE, !.timer = FALSE,
                                    !.reconnOk = IF evSucc THEN @ + 1 ELSE @], P, conn)
      [] c.pc = "prewait" /\ c.waitOn = P.id /\ P.state = "resolved" ->
            Attempt(c, P, conn)
      [] c.pc = "prewait" /\ c.waitOn = P.id /\ P.state = "rejected" ->
            Finish(c, Outcome(P.reason))
      [] c.pc = "wait" /\ c.waitOn = P.id /\ P.state = "resolved" ->
            Issue(c, conn)
      [] c.pc = "wait" /\ c.waitOn = P.id /\ P.state = "rejected" ->
            Catch(c, P.reason)
      [] OTHER -> c

\* What one worker-side step makes runnable in an invocation: the listeners the
\* step's emits call and the continuations of the promise it settles. P and conn
\* are the values the step leaves; evUrl and evSucc say whether it emitted
\* url-change and reconnection:success, evErr is the error of the
\* reconnection:error it emitted ("none": not emitted).
React(c, P, conn, evUrl, evSucc, evErr) ==
    CASE c.pc \in {"call", "goto", "loaded", "await"} /\ c.urlListener /\ evUrl ->
            Catch([c EXCEPT !.preempts = @ + 1], "UrlChange")
      [] c.pc = "reconn" /\ c.listening /\ evSucc ->
            RetryOrGiveUp([c EXCEPT !.listening = FALSE, !.timer = FALSE,
                                    !.reconnOk = @ + 1], P, conn)
      [] c.pc = "reconn" /\ c.listening /\ evErr # "none" /\ ~evSucc ->
            Finish([c EXCEPT !.cause = evErr], Outcome("ReconnectionFailed"))
      [] c.pc = "await" /\ c.waitOn = P.id /\ P.state = "resolved" ->
            AwaitedOutcome(c, P)
      [] c.pc = "await" /\ c.waitOn = P.id /\ P.state = "rejected" ->
            AwaitedOutcome(c, P)
      [] c.pc = "prewait" /\ c.waitOn = P.id /\ P.state = "resolved" ->
            Attempt(c, P, conn)
      [] c.pc = "prewait" /\ c.waitOn = P.id /\ P.state = "rejected" ->
            Finish(c, Outcome(P.reason))
      [] c.pc = "wait" /\ c.waitOn = P.id /\ P.state = "resolved" ->
            Issue(c, conn)
      [] c.pc = "wait" /\ c.waitOn = P.id /\ P.state = "rejected" ->
            Catch(c, P.reason)
      [] c.pc = "sfwait" /\ c.waitOn = P.id /\ P.state = "resolved" ->
            SaveFilesRead(c, conn)
      [] c.pc = "sfwait" /\ c.waitOn = P.id /\ P.state = "rejected" ->
            Finish(c, Outcome(P.reason))
      [] OTHER -> c

ReactAll(P, conn, evUrl, evSucc, evErr) ==
    [c \in Cmds |-> React(cmds[c], P, conn, evUrl, evSucc, evErr)]

\* --------------------------------------------- worker: handleUrlChange
\* One run of handleUrlChange. pc is where the run itself stands; hs is the
\* initiateHandshake call it made, which goes on by itself once the run has left
\* the race with the handshake timeout. gen is the page context at the start.
\* ceiling and hsTimer are the 15 s and 10 s timers: "armed" or "off" (not set,
\* fired or cleared). Of a run that has ended and whose handshake has ended
\* nothing is kept.
StartedRun ==
    [pc |-> "stabilize", hs |-> "none", ceiling |-> "armed", hsTimer |-> "off",
     sess |-> 0, gen |-> ctxGen']
EndedRun ==
    [pc |-> "done", hs |-> "none", ceiling |-> "off", hsTimer |-> "off",
     sess |-> 0, gen |-> 0]

HandshakeUnderWay(run) == run.hs \in {"wait", "offer", "setType"}

\* The run ends (clearTrackedTimeout of its ceiling timer included); its
\* handshake timer can change nothing any more.
Ended(run) ==
    IF HandshakeUnderWay(run)
    THEN [run EXCEPT !.pc = "done", !.ceiling = "off", !.hsTimer = "off"]
    ELSE EndedRun

\* A run, or the handshake it started, is under way.
Active(run) == run.pc # "done" \/ HandshakeUnderWay(run)
NumActive == Cardinality({r \in DOMAIN runs : Active(runs[r])})

\* connection.close() of post-me: the Dispatcher removes its message listener,
\* which is the cleanup function of createMessenger: messageHandler = null,
\* whoever owns the handler by then. Whether closing a Session a second time calls
\* the cleanup function again is left open: both outcomes are taken.
HandlerAfterClose(s) ==
    IF sessions[s].closed THEN {messageHandler, 0} ELSE {0}

\* isPageClosedError of the catch block
IsPageClosedError(err) == err \in {"TargetClosed", "PageClosedHsInit"}

\* emit('url-change') and, when started, emit('reconnection:start') as a
\* registered listener counts them.
EmitUrlChange(started) ==
    IF ~emitted.on THEN emitted
    ELSE [emitted EXCEPT !.urlChange = @ + 1,
                         !.start = @ + (IF started THEN 1 ELSE 0)]

NeedsNewPromise_Always(cur) == TRUE

\* !this.currentReconnectionPromise || this.currentReconnectionPromise.settled
NeedsNewPromise(cur) == cur.id = 0 \/ cur.settled

\* handleUrlChange from its first line to its first await (page.waitForTimeout).
HandleUrlChange ==
    IF ~isMonitoringEnabled
    THEN UNCHANGED <<connection, sessions, messageHandler, promiseVars, runs, cmds,
                     emitted>>
    ELSE
      LET cur   == currentReconnectionPromise
          fresh == NeedsNewPromise(cur)
          P0    == IF fresh THEN NewPromise(cur) ELSE cur
          tgt   == IF fresh THEN P0.id ELSE reconnectionResolve
      IN
      /\ reconnectionResolve' = tgt
      /\ IF pageState # "open"
         THEN \* page.isClosed() (the disconnected-context return does the same)
              LET P1 == SettlePromise(P0, tgt, "rejected", "PageClosed")
              IN /\ currentReconnectionPromise' = P1
                 /\ runs' = Append(runs, EndedRun)
                 /\ cmds' = ReactAll(P1, connection, TRUE, FALSE, "none")
                 /\ emitted' = EmitUrlChange(FALSE)
                 /\ UNCHANGED <<connection, sessions, messageHandler>>
         ELSE \* ceiling timer, reconnection:start, close the existing connection
              /\ currentReconnectionPromise' = P0
              /\ runs' = Append(runs, StartedRun)
              /\ IF connection # 0
                 THEN /\ sessions' = [sessions EXCEPT ![connection].closed = TRUE]
                      /\ messageHandler' \in HandlerAfterClose(connection)
                 ELSE UNCHANGED <<sessions, messageHandler>>
              /\ UNCHANGED connection
              /\ cmds' = ReactAll(P0, connection, TRUE, FALSE, "none")
              /\ emitted' = EmitUrlChange(TRUE)

IsUrlChange_BlankToo(oldUrl, newUrl) == newUrl # oldUrl
IsUrlChange_Always(oldUrl, newUrl) == TRUE

\* The tests of the framenavigated listener between reading the two URLs and
\* calling handleUrlChange: the URL differs from the tracked one and is not
\* about:blank. (currentUrl is set from page.url() when the listener is
\* registered, so the listener never finds it empty.)
IsUrlChange(oldUrl, newUrl) == newUrl # oldUrl /\ newUrl # Blank

\* Where a navigation can lead: a URL not seen before, the current URL again
\* (a reload), about:blank.
NavTargets == {ctxGen + 1, pageUrl, Blank}

\* The framenavigated listener of enableUrlMonitoring, for a main-frame
\* navigation of the worker page to url u: the page is at u and the listener
\* registered first runs up to its first await; the listeners registered after
\* it are left to run (NextListener).
Navigate(u) ==
    /\ pageState = "open"
    /\ ctxGen < MaxNav
    /\ NumActive < MaxOverlap
    /\ pageUrl' = u
    /\ ctxGen' = ctxGen + 1
    /\ currentUrl' = u
    /\ listeners.left = 0
    /\ listeners' = [listeners EXCEPT !.left = listeners.n - 1]
    /\ UNCHANGED <<pageState, connectorCtx, isMonitoringEnabled, stopped,
                   closeVars, initVars, subFrameUrl, launcher, forwarding>>
    /\ IF IsUrlChange(currentUrl, u)
       THEN HandleUrlChange
       ELSE UNCHANGED <<connection, sessions, messageHandler, promiseVars, runs, cmds,
                        emitted>>

\* manualReconnect(): handleUrlChange(page.url(), 'manual-trigger'). Explored for
\* a page that is closed: handleUrlChange entered after the page has gone.
ManualReconnect ==
    /\ ~stopped
    /\ pageState = "closed"
    /\ Len(runs) < MaxNav
    /\ isMonitoringEnabled
    /\ UNCHANGED <<pageVars, connectorCtx, isMonitoringEnabled, currentUrl, stopped,
                   closeVars, initVars, subFrameUrl, listeners, launcher, forwarding>>
    /\ HandleUrlChange

\* disableUrlMonitoring(): the flag is cleared; the framenavigated listener
\* stays registered.
DisableUrlMonitoring ==
    /\ isMonitoringEnabled
    /\ isMonitoringEnabled' = FALSE
    /\ UNCHANGED <<pageVars, connectorCtx, currentUrl, connection, sessions,
                   messageHandler, promiseVars, runs, cmds, stopped, emitted,
                   closeVars, initVars, subFrameUrl, listeners, launcher, forwarding>>

\* enableUrlMonitoring() when monitoring is disabled: the flag is set, one more
\* framenavigated listener is registered, currentUrl = page.url().
EnableUrlMonitoring ==
    /\ ~isMonitoringEnabled
    /\ listeners.n < MaxListeners
    /\ isMonitoringEnabled' = TRUE
    /\ currentUrl' = pageUrl
    /\ listeners' = [listeners EXCEPT !.n = @ + 1]
    /\ UNCHANGED <<pageVars, connectorCtx, connection, sessions,
                   messageHandler, promiseVars, runs, cmds, stopped, emitted,
                   closeVars, initVars, subFrameUrl, launcher, forwarding>>

\* For the navigation being dispatched the next framenavigated listener runs
\* up to its first await: the same code, on the URL the page is at and the
\* currentUrl the listeners before it have left.
NextListener ==
    /\ listeners.left > 0
    /\ listeners' = [listeners EXCEPT !.left = @ - 1, !.ran = @ + 1]
    /\ currentUrl' = pageUrl
    /\ UNCHANGED <<pageVars, connectorCtx, isMonitoringEnabled, stopped,
                   closeVars, initVars, subFrameUrl, launcher, forwarding>>
    /\ IF IsUrlChange(currentUrl, pageUrl)
       THEN HandleUrlChange
       ELSE UNCHANGED <<connection, sessions, messageHandler, promiseVars, runs, cmds,
                        emitted>>

\* The framenavigated listener for a navigation of a sub-frame of the worker
\* page: frame !== page.mainFrame(), return.
SubFrameNavigate ==
    /\ pageState = "open"
    /\ subFrameUrl < MaxSubFrameNav
    /\ subFrameUrl' = subFrameUrl + 1
    /\ UNCHANGED <<pageVars, connectorCtx, isMonitoringEnabled, currentUrl, connection,
                   sessions, messageHandler, promiseVars, runs, cmds, stopped, emitted,
                   closeVars, initVars, listeners, launcher, forwarding>>

\* The catch block of handleUrlChange for error err, on promise P.
\* Gives <<promise, error of the reconnection:error emitted ("none": no event)>>.
RunCatch(P, err) ==
    LET closedErr == IsPageClosedError(err)
        why == IF closedErr THEN "PageClosed" ELSE err
    IN <<MarkSettled(SettlePromise(P, reconnectionResolve, "rejected", why)),
         IF closedErr THEN "none" ELSE err>>

\* The success path of handleUrlChange after the race: reconnection:success,
\* clear the ceiling timer, resolve(true), settled = true.
RunSuccess(P) == MarkSettled(SettlePromise(P, reconnectionResolve, "resolved", "none"))

\* emit('reconnection:success') / emit('reconnection:error') as a registered
\* listener counts them.
Emit(evSucc, evErr) ==
    IF ~emitted.on THEN emitted
    ELSE [emitted EXCEPT !.success = @ + (IF evSucc THEN 1 ELSE 0),
                         !.error = @ + (IF evErr # "none" THEN 1 ELSE 0)]

\* A step of run r that leaves promise P2, run record run2 and the forwarding
\* listeners fw, and emits reconnection:success / reconnection:error as
\* evSucc / evErr says.
RunStepWith(r, P2, run2, evSucc, evErr, fw) ==
    /\ currentReconnectionPromise' = P2
    /\ emitted' = Emit(evSucc, evErr)
    /\ runs' = [runs EXCEPT ![r] = run2]
    /\ cmds' = ReactAll(P2, connection, FALSE, evSucc, evErr)
    /\ forwarding' = fw
    /\ UNCHANGED <<pageVars, connectorCtx, isMonitoringEnabled, currentUrl, connection,
                   sessions, messageHandler, reconnectionResolve, stopped,
                   closeVars, initVars, subFrameUrl, listeners, launcher>>

\* Such a step when no connection:success is emitted.
RunStep(r, P2, run2, evSucc, evErr) ==
    RunStepWith(r, P2, run2, evSucc, evErr, forwarding)

StabilizeOk_ExposesAgain(r) ==
    /\ runs[r].pc = "stabilize"
    /\ pageState = "open"
    /\ connectorCtx' = ctxGen
    /\ runs' = [runs EXCEPT ![r].pc = "handshake", ![r].hs = "wait", ![r].hsTimer = "armed"]
    /\ pages' = [pages EXCEPT !["worker"].exposed = [n \in BridgeNames |-> @[n] + 1]]
    /\ UNCHANGED <<pageVars, isMonitoringEnabled, currentUrl, connection, sessions,
                   messageHandler, promiseVars, cmds, stopped,
                   emitted, closeVars, wire, subFrameUrl, listeners, launcher, forwarding>>

\* page.waitForTimeout(2000) and the connector re-injection both succeed; the page
\* is still open: initiateHandshake starts (its 3 s wait) and the 10 s handshake
\* timer is armed.
StabilizeOk(r) ==
    /\ runs[r].pc = "stabilize"
    /\ pageState = "open"
    /\ connectorCtx' = ctxGen
    /\ runs' = [runs EXCEPT ![r].pc = "handshake", ![r].hs = "wait", ![r].hsTimer = "armed"]
    /\ UNCHANGED <<pageVars, isMonitoringEnabled, currentUrl, connection, sessions,
                   messageHandler, promiseVars, cmds, stopped,
                   emitted, closeVars, initVars, subFrameUrl, listeners, launcher, forwarding>>

\* loaderFunction throws: reject(error), throw, and the catch block rejects again.
\* An execution-context error needs a navigation since the run started.
ReinjectFail(r, err) ==
    /\ runs[r].pc = "stabilize"
    /\ pageState = "open"
    /\ err = "CtxDestroyed" => runs[r].gen < ctxGen
    /\ LET P1 == SettlePromise(currentReconnectionPromise, reconnectionResolve, "rejected", err)
           c  == RunCatch(P1, err)
       IN RunStep(r, c[1], Ended(runs[r]), FALSE, c[2])

\* The page was closed while the run waited. Path "abort": waitForTimeout throws,
\* or the page is found closed before the handshake: reject and return, the
\* settled marker stays false. Path "reinject": the re-injection throws the
\* target-closed error: reject, throw, catch.
StabilizeClosed(r, path) ==
    /\ runs[r].pc = "stabilize"
    /\ pageState # "open"
    /\ LET P1 == SettlePromise(currentReconnectionPromise, reconnectionResolve,
                               "rejected", "PageClosed")
       IN IF path = "reinject"
          THEN LET c == RunCatch(P1, "TargetClosed")
               IN RunStep(r, c[1], Ended(runs[r]), FALSE, c[2])
          ELSE RunStep(r, P1, Ended(runs[r]), FALSE, "none")

\* The 15 s ceiling timer of run r fires: reconnectionReject(...), nothing else.
CeilingTimeout(r) ==
    /\ runs[r].ceiling = "armed"
    /\ RunStep(r, SettlePromise(currentReconnectionPromise, reconnectionResolve,
                                "rejected", "ReconnectionTimeout"),
               [runs[r] EXCEPT !.ceiling = "off"], FALSE, "none")

HandshakeTimeout_Silent(r) ==
    /\ runs[r].hsTimer = "armed"
    /\ runs[r].pc = "handshake"
    /\ RunStep(r, SettlePromise(currentReconnectionPromise, reconnectionResolve,
                                "rejected", "HandshakeTimeout"),
               Ended(runs[r]), FALSE, "none")

\* The 10 s handshake timer of run r fires while the race is open: it rejects.
\* (Fired after the race it rejects a promise nobody reads.)
HandshakeTimeout(r) ==
    /\ runs[r].hsTimer = "armed"
    /\ runs[r].pc = "handshake"
    /\ LET c == RunCatch(currentReconnectionPromise, "HandshakeTimeout")
       IN RunStep(r, c[1], Ended(runs[r]), FALSE, c[2])

\* ------------------------------------- CliskPage.initiateHandshake of run r
HandshakeBegin_ClearsConnection(r) ==
    /\ runs[r].hs = "wait"
    /\ pageState = "open"
    /\ messageHandler' = -r
    /\ connection' = 0
    /\ runs' = [runs EXCEPT ![r].hs = "offer"]
    /\ UNCHANGED <<pageVars, connectorCtx, isMonitoringEnabled, currentUrl,
                   sessions, promiseVars, cmds, stopped,
                   emitted, closeVars, initVars, subFrameUrl, listeners, launcher, forwarding>>

\* After the 3 s wait ParentHandshake starts: its dispatcher takes the page's
\* message handler (createMessenger.addMessageListener).
HandshakeBegin(r) ==
    /\ runs[r].hs = "wait"
    /\ pageState = "open"
    /\ messageHandler' = -r
    /\ runs' = [runs EXCEPT ![r].hs = "offer"]
    /\ UNCHANGED <<pageVars, connectorCtx, isMonitoringEnabled, currentUrl, connection,
                   sessions, promiseVars, cmds, stopped,
                   emitted, closeVars, initVars, subFrameUrl, listeners, launcher, forwarding>>

\* The handshake fails: the 3 s wait throws because the page is closed (err
\* PageClosedHsInit), or ParentHandshake runs out of attempts (HandshakeFailed).
HandshakeFail(r, err) ==
    /\ \/ runs[r].hs = "wait" /\ pageState # "open" /\ err = "PageClosedHsInit"
       \/ runs[r].hs = "offer" /\ err = "HandshakeFailed"
    /\ IF runs[r].pc = "handshake"
       THEN LET c == RunCatch(currentReconnectionPromise, err)
            IN RunStep(r, c[1], EndedRun, FALSE, c[2])
       ELSE RunStep(r, currentReconnectionPromise, EndedRun, FALSE, "none")

\* The connector answers the handshake offer: it runs in the page's current
\* context and the answer reaches the handshake dispatcher. this.connection is the
\* new Session, whose Dispatcher takes the message handler; setContentScriptType
\* is called on it.
HandshakeConnect(r) ==
    /\ runs[r].hs = "offer"
    /\ pageState = "open"
    /\ messageHandler = -r
    /\ connectorCtx = ctxGen
    /\ LET s == Len(sessions) + 1 IN
       /\ sessions' = Append(sessions, [closed |-> FALSE, ctx |-> ctxGen])
       /\ connection' = s
       /\ messageHandler' = s
       /\ runs' = [runs EXCEPT ![r].hs = "setType", ![r].sess = s]
    /\ UNCHANGED <<pageVars, connectorCtx, isMonitoringEnabled, currentUrl, promiseVars,
                   cmds, stopped,
                   emitted, closeVars, initVars, subFrameUrl, listeners, launcher, forwarding>>

\* A message of the page's current context reaches Session s.
Reaches(s) ==
    /\ messageHandler = s
    /\ ~sessions[s].closed
    /\ sessions[s].ctx = ctxGen
    /\ pageState = "open"

\* The PilotService forwards nothing: none is constructed.
NoForwarding ==
    [on |-> FALSE, att |-> <<>>, events |-> 0, lastFwd |-> 0, lastQuiet |-> FALSE,
     lastOk |-> FALSE]

\* The workerEvent listeners attached to the remote handle of Session s. att
\* lists the Sessions in the order attachWorkerEvent attached to them.
ForwardingListeners(fw, s) == Cardinality({i \in DOMAIN fw.att : fw.att[i] = s})

AttachWorkerEvent_Never(fw, conn) == fw

\* attachWorkerEvent, the connection:success listener the PilotService
\* constructor registers on the worker page: it attaches handleWorkerEvent to
\* the Session the page holds when the event is emitted.
AttachWorkerEvent(fw, conn) ==
    IF fw.on /\ conn # 0 THEN [fw EXCEPT !.att = Append(@, conn)] ELSE fw

\* The worker's connector emits a workerEvent on its end of the Session the
\* page holds. The message reaches the Session's Dispatcher if that is the
\* page's message handler, and handleWorkerEvent emits it on the pilot's
\* Session once for every listener attached. events, lastFwd, lastQuiet and
\* lastOk are history: the events emitted, how many times the last one was
\* forwarded, whether no reconnection was under way when it was emitted, and
\* whether every reconnection started before it had emitted
\* reconnection:success.
WorkerEmits ==
    /\ forwarding.on
    /\ forwarding.events < MaxEvents
    /\ listeners.left = 0
    /\ connection # 0
    /\ ~sessions[connection].closed
    /\ sessions[connection].ctx = ctxGen
    /\ pageState = "open"
    /\ forwarding' = [forwarding EXCEPT
                        !.events = @ + 1,
                        !.lastFwd = IF messageHandler = connection
                                    THEN ForwardingListeners(forwarding, connection)
                                    ELSE 0,
                        !.lastQuiet = (NumActive = 0),
                        !.lastOk = (emitted.success = Len(runs))]
    /\ UNCHANGED <<pageVars, connectorCtx, isMonitoringEnabled, currentUrl, connection,
                   sessions, messageHandler, promiseVars, runs, cmds, stopped, emitted,
                   closeVars, initVars, subFrameUrl, listeners, launcher>>

HandshakeReturn_NoEvent(r) ==
    /\ runs[r].hs = "setType"
    /\ Reaches(runs[r].sess)
    /\ RunStep(r, IF runs[r].pc = "handshake"
                  THEN RunSuccess(currentReconnectionPromise)
                  ELSE currentReconnectionPromise,
               EndedRun, FALSE, "none")

\* setContentScriptType answers (with a value or an error: both go on):
\* connection:success is emitted (its listener attachWorkerEvent runs) and
\* initiateHandshake returns; if the run still races, it takes the success path.
HandshakeReturn(r) ==
    /\ runs[r].hs = "setType"
    /\ Reaches(runs[r].sess)
    /\ IF runs[r].pc = "handshake"
       THEN RunStepWith(r, RunSuccess(currentReconnectionPromise), EndedRun, TRUE, "none",
                        AttachWorkerEvent(forwarding, connection))
       ELSE RunStepWith(r, currentReconnectionPromise, EndedRun, FALSE, "none",
                        AttachWorkerEvent(forwarding, connection))

\* getReconnectionPromise(): the promise the field holds, or Promise.resolve(true)
\* (given here with id 0) when the field is null.
getReconnectionPromise ==
    IF currentReconnectionPromise.id # 0
    THEN currentReconnectionPromise
    ELSE [NoPromise EXCEPT !.state = "resolved"]

\* ------------------------------------------------ pilot: the invocation
workerVars == <<pageVars, connectorCtx, isMonitoringEnabled, currentUrl, connection,
                sessions, messageHandler, promiseVars, runs, stopped,
                   emitted, closeVars, initVars, subFrameUrl, listeners, launcher, forwarding>>

ReconnectionPending == currentReconnectionPromise.state = "pending"

\* The pilot connector calls runInWorker(method, ...args): the 500 ms sleep starts.
Invoke(c) ==
    /\ cmds[c].pc = "idle"
    /\ ~stopped
    /\ cmds' = [cmds EXCEPT ![c].pc = "sleep",
                  ![c].episode = IF ReconnectionPending
                                 THEN currentReconnectionPromise.id ELSE 0,
                  ![c].sessAtEpisode = IF ReconnectionPending
                                       THEN currentReconnectionPromise.sessCount ELSE 0]
    /\ UNCHANGED workerVars

\* The sleep ends.
CmdWake(c) ==
    /\ cmds[c].pc = "sleep"
    /\ cmds' = [cmds EXCEPT ![c] = AfterSleep(@, currentReconnectionPromise, connection)]
    /\ UNCHANGED workerVars

\* The worker answers the remote call: with the method's value ("ok"), or with
\* the error the method threw ("AppError").
CmdCallReturn(c, res) ==
    /\ cmds[c].pc = "call"
    /\ Reaches(cmds[c].sess)
    /\ cmds' = [cmds EXCEPT ![c] =
                  IF res = "ok" THEN Finish(@, Outcome("ok")) ELSE FnThrows(@, res)]
    /\ UNCHANGED workerVars

\* The remote call fails because the page context it was sent to is gone
\* ('Execution context was destroyed'): rethrown as URL_CHANGE_DETECTED.
CmdCallCtxDestroyed(c) ==
    /\ cmds[c].pc = "call"
    /\ sessions[cmds[c].sess].ctx < ctxGen
    /\ cmds' = [cmds EXCEPT ![c] = FnThrows(@, "CtxDestroyed")]
    /\ UNCHANGED workerVars

\* The 30 s timer of an attempt removes its url-change listener.
UrlListenerExpire(c) ==
    /\ cmds[c].pc = "call"
    /\ cmds[c].urlListener
    /\ cmds' = [cmds EXCEPT ![c].urlListener = FALSE]
    /\ UNCHANGED workerVars

\* The 30 s timer of waitForReconnectionAfterUrlChange rejects the wait; thrown
\* inside the catch block, the error rejects the invocation.
ReconnWaitTimeout(c) ==
    /\ cmds[c].pc = "reconn"
    /\ cmds[c].timer
    /\ cmds' = [cmds EXCEPT ![c] = Finish(@, Outcome("WaitTimeout"))]
    /\ UNCHANGED workerVars

\* ----------------------------------------------- pilot: localSaveFiles
\* The pilot connector calls localSaveFiles(entries) with n entries.
InvokeLocalSaveFiles(c, n) ==
    /\ cmds[c].pc = "idle"
    /\ ~stopped
    /\ cmds' = [cmds EXCEPT ![c] =
                  SaveFilesStart([@ EXCEPT !.command = "localSaveFiles", !.entries = n],
                                 getReconnectionPromise, connection)]
    /\ UNCHANGED workerVars

\* fs.mkdir('./data') is done: the loop starts.
MkdirDone(c) ==
    /\ cmds[c].pc = "mkdir"
    /\ cmds' = [cmds EXCEPT ![c] = SaveFilesLoop(@)]
    /\ UNCHANGED workerVars

\* The worker answers downloadFileInWorker: with the data URI ("ok":
\* fs.writeFile is called), or with the error the method threw, which
\* localSaveFiles throws again.
SaveFilesCallReturn(c, res) ==
    /\ cmds[c].pc = "sfcall"
    /\ Reaches(cmds[c].sess)
    /\ cmds' = [cmds EXCEPT ![c] =
                  IF res = "ok" THEN [@ EXCEPT !.pc = "write"] ELSE Finish(@, Outcome(res))]
    /\ UNCHANGED workerVars

\* downloadFileInWorker fails because the page context it was sent to is gone:
\* thrown again as URL_CHANGE_DETECTED.
SaveFilesCtxDestroyed(c) ==
    /\ cmds[c].pc = "sfcall"
    /\ sessions[cmds[c].sess].ctx < ctxGen
    /\ cmds' = [cmds EXCEPT ![c] = Finish(@, Outcome("UrlChange"))]
    /\ UNCHANGED workerVars

\* fs.writeFile is done: the next iteration of the loop.
WriteDone(c) ==
    /\ cmds[c].pc = "write"
    /\ cmds' = [cmds EXCEPT ![c] = SaveFilesLoop([@ EXCEPT !.entry = @ + 1])]
    /\ UNCHANGED workerVars

\* --------------------------------------------- pilot: setWorkerState
\* The urls a pilot connector asks for: a URL not seen before, the page's
\* current URL, each in its normalized and in another spelling, and about:blank.
StateUrls == {ctxGen + 1, -(ctxGen + 1), pageUrl, -pageUrl, Blank}

\* The pilot connector calls setWorkerState({url}): _setWorkerState enters
\* executeWithUrlChangeRetry and runs to its first await. A second call is made
\* after the first has ended.
InvokeSetWorkerState(c, url) ==
    /\ ~stopped
    /\ \/ cmds[c].pc = "idle"
       \/ cmds[c].pc = "done" /\ cmds[c].command = "setWorkerState"
                              /\ cmds[c].round < MaxRounds
    /\ LET old   == cmds[c]
           first == old.pc = "idle"
           new   == [IdleCmd EXCEPT
                       !.command = "setWorkerState", !.target = url,
                       !.round = IF first THEN 1 ELSE old.round + 1,
                       !.prevTarget = IF first THEN Blank ELSE old.target,
                       !.prevNavs = IF first THEN 0 ELSE old.prevNavs + old.navs,
                       !.prevOk = ~first /\ old.result.kind = "ok",
                       !.quiet = (NumActive = 0),
                       !.ctx0 = IF first THEN ctxGen ELSE old.ctx0,
                       !.runs0 = IF first THEN Len(runs) ELSE old.runs0,
                       !.atUrl = (pageUrl = Href(url)),
                       !.busy = MustAwait(currentReconnectionPromise)
                                /\ currentReconnectionPromise.state # "resolved"]
       IN cmds' = [cmds EXCEPT ![c] = Attempt(new, currentReconnectionPromise, connection)]
    /\ UNCHANGED workerVars

\* page.goto(url) of the command function commits: the framenavigated listener
\* runs. Unless the navigation is filtered, handleUrlChange emits url-change,
\* which the attempt's own listener hears.
GotoCommit(c) ==
    /\ cmds[c].pc = "goto"
    /\ pageState = "open"
    /\ ctxGen < MaxNav
    /\ NumActive < MaxOverlap
    /\ pageUrl' = Href(cmds[c].target)
    /\ ctxGen' = ctxGen + 1
    /\ currentUrl' = Href(cmds[c].target)
    /\ listeners.left = 0
    /\ listeners' = [listeners EXCEPT !.left = listeners.n - 1]
    /\ UNCHANGED <<pageState, connectorCtx, isMonitoringEnabled, stopped,
                   closeVars, initVars, subFrameUrl, launcher, forwarding>>
    /\ IF IsUrlChange(currentUrl, Href(cmds[c].target))
       THEN isMonitoringEnabled /\ HandleUrlChange
       ELSE /\ cmds' = [cmds EXCEPT ![c].pc = "loaded"]
            /\ UNCHANGED <<connection, sessions, messageHandler, promiseVars, runs,
                           emitted>>

\* workerPage.navigate(url) returns (page.goto and the 500 ms wait are over):
\* the command function awaits getReconnectionPromise().
GotoLoaded(c) ==
    /\ cmds[c].pc = "loaded"
    /\ pageState = "open"
    /\ cmds' = [cmds EXCEPT ![c] = AwaitedOutcome(@, getReconnectionPromise)]
    /\ UNCHANGED workerVars

\* ------------------------------------------------- CliskPage.close()
\* close() of the worker page up to its 100 ms wait: the Session, if the field
\* holds one, is closed (errors ignored) and the field set to null.
CloseBegin ==
    /\ closeOp.pc # "sleep"
    /\ closeOp.calls < MaxClose
    /\ closeOp' = [pc |-> "sleep", calls |-> closeOp.calls + 1]
    /\ IF connection # 0
       THEN /\ sessions' = [sessions EXCEPT ![connection].closed = TRUE]
            /\ messageHandler' \in HandlerAfterClose(connection)
            /\ connection' = 0
       ELSE UNCHANGED <<connection, sessions, messageHandler>>
    /\ UNCHANGED <<pageVars, connectorCtx, isMonitoringEnabled, currentUrl, promiseVars,
                   runs, cmds, stopped, emitted, isInitialized, initVars, subFrameUrl,
                   listeners, launcher, forwarding>>

\* close() after the 100 ms wait: the page is closed if it is not yet (errors
\* caught), page = null, messageHandler = null, isInitialized = false.
CloseEnd ==
    /\ closeOp.pc = "sleep"
    /\ closeOp' = [closeOp EXCEPT !.pc = "done"]
    /\ pageState' = "closed"
    /\ messageHandler' = 0
    /\ isInitialized' = FALSE
    /\ UNCHANGED <<pageUrl, ctxGen, connectorCtx, isMonitoringEnabled, currentUrl,
                   connection, sessions, promiseVars, runs, cmds, stopped, emitted,
                   initVars, subFrameUrl, listeners, launcher, forwarding>>

\* ------------------------------- the two pages of PlaywrightLauncher.init()
PageNames == {"worker", "pilot"}

\* A CliskPage whose initiateHandshake has been called (it waits 3 s for the
\* connector), and the connector of its page. heardFrom, pingReplies and
\* connectorGot are history: the pages whose messages reached this CliskPage's
\* message handler, the names its ping method answered with, and the names in
\* the ping answers the connector of its page received. exposed counts the
\* registrations of each bridge function on the page this.page holds; inits
\* counts the init() calls. setTypeFailed and successEvents are history: the
\* setContentScriptType call of the handshake was answered with an error, and
\* the connection:success events emitted. navs counts the navigations of the
\* page after its handshake.
HandshakingPage(p) ==
    [pageName |-> p, hs |-> "wait", messageHandler |-> "null", connection |-> FALSE,
     pings |-> 0, heardFrom |-> {}, pingReplies |-> {}, connectorGot |-> {},
     functionsExposed |-> TRUE, exposed |-> [n \in BridgeNames |-> 1], inits |-> 1,
     setTypeFailed |-> FALSE, successEvents |-> 0, navs |-> 0]

\* The CliskPage as its constructor leaves it.
ConstructedPage(p) ==
    [HandshakingPage(p) EXCEPT !.hs = "new", !.functionsExposed = FALSE,
                               !.exposed = [n \in BridgeNames |-> 0], !.inits = 0]

\* setupPostMeCommunication(exposeFunctions) on CliskPage record pg: the two
\* page.exposeFunction calls, guarded by the functionsExposed flag.
SetupPostMeCommunication(pg, exposeFunctions) ==
    IF exposeFunctions /\ ~pg.functionsExposed
    THEN [pg EXCEPT !.exposed = [n \in BridgeNames |-> @[n] + 1],
                    !.functionsExposed = TRUE]
    ELSE pg

\* init() of CliskPage p: this.page is a new page (nothing is registered on
\* it), then setupPostMeCommunication(). It is called before the handshake.
PageInit(p) ==
    /\ pages[p].hs \in {"new", "ready"}
    /\ pages[p].inits < MaxInit
    /\ pages' = [pages EXCEPT ![p] =
                   SetupPostMeCommunication(
                       [@ EXCEPT !.exposed = [n \in BridgeNames |-> 0],
                                 !.hs = "ready", !.inits = @ + 1], TRUE)]
    /\ UNCHANGED <<wire, afterInitVars>>

\* initiateHandshake() of CliskPage p is called: it waits 3 s for the connector.
InitiateHandshake(p) ==
    /\ pages[p].hs = "ready"
    /\ pages' = [pages EXCEPT ![p].hs = "wait"]
    /\ UNCHANGED <<wire, afterInitVars>>

\* The CliskPage after init(): connected, its Session's Dispatcher listening.
ConnectedPage(p) ==
    [HandshakingPage(p) EXCEPT !.hs = "connected", !.messageHandler = "session",
                               !.connection = TRUE, !.successEvents = 1]

\* getLocalMethods().ping of CliskPage p
Ping(p) == pages[p].pageName

\* After the 3 s wait ParentHandshake registers its listener
\* (createMessenger.addMessageListener) and posts the handshake request into
\* its page (createMessenger.postMessage: this.page.evaluate).
ParentHandshakeStart(p) ==
    /\ pages[p].hs = "wait"
    /\ pages' = [pages EXCEPT ![p].hs = "offer", ![p].messageHandler = "handshake"]
    /\ wire' = wire \cup {[to |-> "page", page |-> p, type |-> "handshake-request",
                          value |-> "none"]}
    /\ UNCHANGED afterInitVars

\* The connector of page p takes a message posted into its page: it answers a
\* handshake request and a call (setContentScriptType) through
\* ReactNativeWebView.postMessage, and keeps the answer of a ping call.
ConnectorReceives(m) ==
    /\ m \in wire
    /\ m.to = "page"
    /\ CASE m.type = "handshake-request" ->
              /\ wire' = (wire \ {m}) \cup {[to |-> "host", page |-> m.page,
                                             type |-> "handshake-response",
                                             value |-> "none"]}
              /\ UNCHANGED pages
         [] m.type = "call" ->
              /\ \E answer \in {"none", "error"} :
                    wire' = (wire \ {m}) \cup {[to |-> "host", page |-> m.page,
                                                type |-> "response", value |-> answer]}
              /\ UNCHANGED pages
         [] OTHER ->
              /\ wire' = wire \ {m}
              /\ pages' = [pages EXCEPT ![m.page].connectorGot = @ \cup {m.value}]
    /\ UNCHANGED afterInitVars

\* The connector of page p calls the host's ping method over its connection.
ConnectorPing(p) ==
    /\ pages[p].connection
    /\ pages[p].pings < MaxPings
    /\ pages' = [pages EXCEPT ![p].pings = @ + 1]
    /\ wire' = wire \cup {[to |-> "host", page |-> p, type |-> "call",
                          value |-> "none"]}
    /\ UNCHANGED afterInitVars

AfterSetContentScriptType_Fatal(pg, m) ==
    IF m.value = "error"
    THEN [pg EXCEPT !.hs = "failed", !.connection = FALSE, !.setTypeFailed = TRUE]
    ELSE [pg EXCEPT !.hs = "connected", !.successEvents = @ + 1]

\* initiateHandshake of CliskPage record pg once its setContentScriptType call
\* is answered by m, with a value or with an error (caught and logged): it
\* emits connection:success and returns this.connection.
AfterSetContentScriptType(pg, m) ==
    [pg EXCEPT !.hs = "connected", !.setTypeFailed = (m.value = "error"),
               !.successEvents = @ + 1]

\* What the message handler of CliskPage p does with message m: the handshake
\* listener completes the handshake on a response (this.connection is the new
\* Session, whose Dispatcher becomes the handler, and setContentScriptType is
\* called in the page); a Session answers a call of ping by posting the result
\* into its own page, and initiateHandshake returns when setContentScriptType
\* is answered.
Handle(p, m) ==
    LET heard == [pages EXCEPT ![p].heardFrom = @ \cup {m.page}] IN
    CASE pages[p].messageHandler = "null" ->
            /\ pages' = pages
            /\ wire' = wire \ {m}
      [] pages[p].messageHandler = "handshake" /\ m.type = "handshake-response" ->
            /\ pages' = [heard EXCEPT ![p].hs = "setType", ![p].connection = TRUE,
                                      ![p].messageHandler = "session"]
            /\ wire' = (wire \ {m}) \cup {[to |-> "page", page |-> p,
                                           type |-> "call", value |-> "none"]}
      [] pages[p].messageHandler = "session" /\ m.type = "response" ->
            /\ pages' = [heard EXCEPT ![p] = AfterSetContentScriptType(@, m)]
            /\ wire' = wire \ {m}
      [] pages[p].messageHandler = "session" /\ m.type = "call" ->
            /\ pages' = [heard EXCEPT ![p].pingReplies = @ \cup {Ping(p)}]
            /\ wire' = (wire \ {m}) \cup {[to |-> "page", page |-> p,
                                           type |-> "response", value |-> Ping(p)]}
      [] OTHER ->
            /\ pages' = heard
            /\ wire' = wire \ {m}

SendToPlaywright_OneHandler(m) ==
    /\ m \in wire
    /\ m.to = "host"
    /\ Handle("worker", m)
    /\ UNCHANGED afterInitVars

\* window.sendToPlaywright(m) called in page m.page: the function exposed on
\* that page by its CliskPage calls this.messageHandler, if there is one.
SendToPlaywright(m) ==
    /\ m \in wire
    /\ m.to = "host"
    /\ pages[m.page].exposed["sendToPlaywright"] > 0
    /\ Handle(m.page, m)
    /\ UNCHANGED afterInitVars

Messages ==
    [to : {"page", "host"}, page : PageNames,
     type : {"handshake-request", "handshake-response", "call", "response"},
     value : PageNames \cup {"none", "error"}]

PilotNavigate_Monitored ==
    /\ pages["pilot"].hs = "connected"
    /\ pages["pilot"].navs < MaxPilotNav
    /\ listeners.left = 0
    /\ pages' = [pages EXCEPT !["pilot"].navs = @ + 1]
    /\ wire' = {m \in wire : ~(m.to = "page" /\ m.page = "pilot")}
    /\ UNCHANGED <<pageVars, connectorCtx, isMonitoringEnabled, currentUrl, stopped,
                   closeVars, subFrameUrl, listeners, launcher, forwarding>>
    /\ HandleUrlChange

\* The pilot page navigates after its handshake. No framenavigated listener is
\* registered on it (enableUrlMonitoring is called on the WorkerService only,
\* which listens on the worker's page): the messages on their way into the
\* pilot page are lost with its context and nothing else happens.
PilotNavigate ==
    /\ pages["pilot"].hs = "connected"
    /\ pages["pilot"].navs < MaxPilotNav
    /\ listeners.left = 0
    /\ pages' = [pages EXCEPT !["pilot"].navs = @ + 1]
    /\ wire' = {m \in wire : ~(m.to = "page" /\ m.page = "pilot")}
    /\ UNCHANGED afterInitVars

\* ------------------------------------------------------- PlaywrightLauncher
\* The fields of the launcher that hold an object or null.
LauncherFields ==
    {"browser", "context", "pilotPage", "workerPage", "pilotService", "workerService"}

\* The launcher as its constructor leaves it. set is the set of its fields
\* that are not null; pc is where init() is ("new": not called, "init":
\* running, "failed": it threw, "ready": it returned) or "stopped" once stop()
\* has returned; stops, threw and failedAt are history: the stop() calls,
\* whether an exception left stop(), and the close step of the last stop()
\* that threw.
NewLauncher ==
    [set |-> {}, isInitialized |-> FALSE, pc |-> "new", stops |-> 0, threw |-> FALSE,
     failedAt |-> "none"]

\* The launcher while init() runs the steps after the construction.
InitLauncher == [NewLauncher EXCEPT !.set = LauncherFields, !.pc = "init"]

\* The launcher after init() has returned.
ReadyLauncher ==
    [NewLauncher EXCEPT !.set = LauncherFields, !.isInitialized = TRUE, !.pc = "ready"]

\* isReady(): the value of the && chain, which is false, the first null
\* field, or the last operand (the WorkerService object).
IsReady(l) ==
    IF ~l.isInitialized THEN "false"
    ELSE IF {"pilotPage", "workerPage", "pilotService", "workerService"} \subseteq l.set
         THEN "object"
         ELSE "null"

StopFields_ResetOnly(l, fail) ==
    LET throws == fail \in l.set IN
    [l EXCEPT !.set = IF throws THEN @ ELSE {},
              !.isInitialized = IF throws THEN @ ELSE FALSE,
              !.pc = "stopped", !.stops = @ + 1, !.threw = FALSE,
              !.failedAt = IF throws THEN fail ELSE "none"]

\* The fields stop() leaves when the close step named fail throws ("none": no
\* step throws; a step runs only if its field is not null). The two services
\* are cleaned up and set to null first; the exception of a close step skips
\* the reset block and is caught, so none leaves stop().
StopFields(l, fail) ==
    LET cleaned == l.set \ {"workerService", "pilotService"}
        throws == fail \in cleaned \cap {"context", "browser"}
    IN  [l EXCEPT !.set = IF throws THEN cleaned ELSE {},
                  !.isInitialized = IF throws THEN @ ELSE FALSE,
                  !.pc = "stopped", !.stops = @ + 1, !.threw = FALSE,
                  !.failedAt = IF throws THEN fail ELSE "none"]

\* close() of a CliskPage: the Session is closed, connection = null, the page
\* is closed, messageHandler = null. Its own exceptions are caught.
ClosedPage(pg) ==
    [pg EXCEPT !.hs = "closed", !.connection = FALSE, !.messageHandler = "null"]

\* init() up to the construction of the pages and services: the browser and
\* the context are launched (ok), or launching throws with the fields in got
\* assigned.
LauncherInitLaunch(ok, got) ==
    /\ launcher.pc \in {"new", "stopped"}
    /\ launcher.stops < MaxStop
    /\ IF ok
       THEN /\ launcher' = [launcher EXCEPT !.set = LauncherFields, !.pc = "init"]
            /\ pages' = [p \in PageNames |-> ConstructedPage(p)]
            /\ wire' = {}
       ELSE /\ launcher' = [launcher EXCEPT !.set = @ \cup got, !.pc = "failed"]
            /\ UNCHANGED <<pages, wire>>
    /\ UNCHANGED <<pageVars, connectorCtx, isMonitoringEnabled, currentUrl, connection,
                   sessions, messageHandler, promiseVars, runs, cmds, stopped, emitted,
                   closeVars, subFrameUrl, listeners, forwarding>>

\* init(): await this.pilotPage.init(), then await this.workerPage.init().
LauncherPageInit(p) ==
    /\ launcher.pc = "init"
    /\ pages[p].inits = 0
    /\ p = "worker" => pages["pilot"].inits > 0
    /\ PageInit(p)

\* init(): the Promise.all of the two initiateHandshake calls.
LauncherHandshakes ==
    /\ launcher.pc = "init"
    /\ \A p \in PageNames : pages[p].hs = "ready"
    /\ pages' = [p \in PageNames |-> [pages[p] EXCEPT !.hs = "wait"]]
    /\ UNCHANGED <<wire, afterInitVars>>

\* init() returns once both handshakes have: isInitialized = true.
LauncherInitDone ==
    /\ launcher.pc = "init"
    /\ \A p \in PageNames : pages[p].hs = "connected"
    /\ launcher' = [launcher EXCEPT !.isInitialized = TRUE, !.pc = "ready"]
    /\ UNCHANGED <<pageVars, connectorCtx, isMonitoringEnabled, currentUrl, connection,
                   sessions, messageHandler, promiseVars, runs, cmds, stopped, emitted,
                   closeVars, initVars, subFrameUrl, listeners, forwarding>>

\* One of the steps init() awaits after the construction throws.
LauncherInitFail ==
    /\ launcher.pc = "init"
    /\ launcher' = [launcher EXCEPT !.pc = "failed"]
    /\ UNCHANGED <<pageVars, connectorCtx, isMonitoringEnabled, currentUrl, connection,
                   sessions, messageHandler, promiseVars, runs, cmds, stopped, emitted,
                   closeVars, initVars, subFrameUrl, listeners, forwarding>>

\* stop() while init() is not running; fail names the close step that throws.
\* The two CliskPages are closed before the context and the browser are. What
\* it does to the worker page's reconnection state is the Stop action.
LauncherStop(fail) ==
    /\ launcher.pc # "init"
    /\ launcher.stops < MaxStop
    /\ launcher' = StopFields(launcher, fail)
    /\ pages' = IF "workerPage" \in launcher.set
                THEN [p \in PageNames |-> ClosedPage(pages[p])]
                ELSE pages
    /\ UNCHANGED <<pageVars, connectorCtx, isMonitoringEnabled, currentUrl, connection,
                   sessions, messageHandler, promiseVars, runs, cmds, stopped, emitted,
                   closeVars, wire, subFrameUrl, listeners, forwarding>>

\* ------------------------------------------------------- orchestrator
\* An invocation that has started and not ended.
Pending(c) == c.pc \notin {"idle", "done"}

\* PlaywrightLauncher.stop(): WorkerService.cleanup (clear the tracked timers,
\* disable monitoring), PilotService.cleanup (clear the tracked timers,
\* removeAllListeners on the worker service), CliskPage.close of the worker
\* (close the Session, connection = null, close the page, messageHandler = null).
Stop ==
    /\ ~stopped
    /\ stopped' = TRUE
    /\ isMonitoringEnabled' = FALSE
    /\ runs' = [r \in DOMAIN runs |->
                  [runs[r] EXCEPT !.ceiling = "off", !.hsTimer = "off"]]
    /\ cmds' = [c \in Cmds |->
                  [cmds[c] EXCEPT !.timer = FALSE, !.listening = FALSE,
                                  !.urlListener = FALSE,
                                  !.atStop = Pending(cmds[c]) /\ ReconnectionPending]]
    /\ sessions' = IF connection # 0
                   THEN [sessions EXCEPT ![connection].closed = TRUE]
                   ELSE sessions
    /\ connection' = 0
    /\ messageHandler' = 0
    /\ pageState' = "closed"
    /\ closeOp' = [closeOp EXCEPT !.pc = "done"]
    /\ isInitialized' = FALSE
    /\ launcher' = StopFields(launcher, "none")
    /\ UNCHANGED <<pageUrl, ctxGen, connectorCtx, currentUrl, promiseVars, emitted,
                   initVars, subFrameUrl, listeners, forwarding>>

\* The worker page is closed from outside (the window is closed, the browser
\* goes away).
PageGoesAway ==
    /\ ~stopped
    /\ pageState = "open"
    /\ pageState' = "closed"
    /\ UNCHANGED <<pageUrl, ctxGen, connectorCtx, isMonitoringEnabled, currentUrl,
                   connection, sessions, messageHandler, promiseVars, runs, cmds, stopped,
                   emitted, closeVars, initVars, subFrameUrl, listeners, launcher, forwarding>>

\* ------------------------------------------------------ specification
\* The state PlaywrightLauncher.init() leaves: both pages at about:blank, the
\* connector injected, monitoring enabled on the worker, the first handshake done.
Launched ==
    /\ pageUrl = Blank
    /\ subFrameUrl = Blank
    /\ listeners = [n |-> 1, left |-> 0, ran |-> 0]
    /\ pageState = "open"
    /\ ctxGen = 0
    /\ connectorCtx = 0
    /\ isMonitoringEnabled = TRUE
    /\ currentUrl = Blank
    /\ connection = 1
    /\ sessions = <<[closed |-> FALSE, ctx |-> 0]>>
    /\ messageHandler = 1
    /\ currentReconnectionPromise = NoPromise
    /\ reconnectionResolve = 0
    /\ runs = <<>>
    /\ cmds = [c \in Cmds |-> IdleCmd]
    /\ stopped = FALSE
    /\ closeOp = [pc |-> "none", calls |-> 0]
    /\ isInitialized = TRUE

\* No listener of the WorkerService events counts them.
NoListener == [on |-> FALSE, success |-> 0, error |-> 0, urlChange |-> 0, start |-> 0]

Init ==
    /\ Launched
    /\ launcher = ReadyLauncher
    /\ forwarding = NoForwarding
    /\ emitted = NoListener
    /\ pages = [p \in PageNames |-> ConnectedPage(p)]
    /\ wire = {}

RunNext(r) ==
    \/ StabilizeOk(r)
    \/ \E err \in {"InjectError", "CtxDestroyed"} : ReinjectFail(r, err)
    \/ \E path \in {"abort", "reinject"} : StabilizeClosed(r, path)
    \/ CeilingTimeout(r)
    \/ HandshakeTimeout(r)
    \/ HandshakeBegin(r)
    \/ \E err \in {"PageClosedHsInit", "HandshakeFailed"} : HandshakeFail(r, err)
    \/ HandshakeConnect(r)
    \/ HandshakeReturn(r)

CmdNext(c) ==
    \/ CmdWake(c)
    \/ \E res \in {"ok", "AppError"} : CmdCallReturn(c, res)
    \/ CmdCallCtxDestroyed(c)
    \/ UrlListenerExpire(c)
    \/ ReconnWaitTimeout(c)

Next ==
    \/ \E u \in NavTargets : Navigate(u)
    \/ ManualReconnect
    \/ \E r \in DOMAIN runs : RunNext(r)
    \/ \E c \in Cmds : Invoke(c)
    \/ \E c \in Cmds : CmdNext(c)
    \/ Stop
    \/ PageGoesAway

Spec == Init /\ [][Next]_vars

\* The steps of a handleUrlChange run on a page that stays open.
OpenRunNext(r) ==
    \/ StabilizeOk(r)
    \/ \E err \in {"InjectError", "CtxDestroyed"} : ReinjectFail(r, err)
    \/ CeilingTimeout(r)
    \/ HandshakeTimeout(r)
    \/ HandshakeBegin(r)
    \/ HandshakeFail(r, "HandshakeFailed")
    \/ HandshakeConnect(r)
    \/ HandshakeReturn(r)

\* The pilot drives the worker with setWorkerState: successive calls of one
\* pilot connector, the reconnections and their timers. The page stays open;
\* it navigates by itself (to a new URL) only before the pilot's first call.
SetWorkerStateNext ==
    \/ \E c \in Cmds : \E url \in StateUrls : InvokeSetWorkerState(c, url)
    \/ \E c \in Cmds : GotoCommit(c)
    \/ \E c \in Cmds : GotoLoaded(c)
    \/ \E c \in Cmds : ReconnWaitTimeout(c)
    \/ (\A c \in Cmds : cmds[c].pc = "idle") /\ Navigate(ctxGen + 1)
    \/ \E r \in DOMAIN runs : OpenRunNext(r)

SetWorkerStateSpec == Init /\ [][SetWorkerStateNext]_vars

\* ------------------------------------------------------------ properties
\* A listener counts the events of the WorkerService while the worker page,
\* which stays open, navigates.
ObservedInit ==
    /\ Launched
    /\ launcher = ReadyLauncher
    /\ forwarding = NoForwarding
    /\ emitted = [NoListener EXCEPT !.on = TRUE]
    /\ pages = [p \in PageNames |-> ConnectedPage(p)]
    /\ wire = {}

ObservedNext ==
    \/ \E u \in NavTargets : Navigate(u)
    \/ \E r \in DOMAIN runs : OpenRunNext(r)

ObservedSpec == ObservedInit /\ [][ObservedNext]_vars

\* The worker page navigates and reconnects, its events listened to, while
\* the pilot page navigates too.
PilotNavNext ==
    \/ \E u \in NavTargets : Navigate(u)
    \/ \E r \in DOMAIN runs : OpenRunNext(r)
    \/ PilotNavigate

PilotNavSpec == ObservedInit /\ [][PilotNavNext]_vars

\* The worker page navigates and reconnects while its connector emits
\* workerEvents; a PilotService has been constructed before the handshakes, so
\* its listener is attached to the first Session.
ForwardInit ==
    /\ Launched
    /\ launcher = ReadyLauncher
    /\ forwarding = [NoForwarding EXCEPT !.on = TRUE, !.att = <<1>>]
    /\ emitted = [NoListener EXCEPT !.on = TRUE]
    /\ pages = [p \in PageNames |-> ConnectedPage(p)]
    /\ wire = {}

ForwardNext ==
    \/ \E u \in NavTargets : Navigate(u)
    \/ \E r \in DOMAIN runs : OpenRunNext(r)
    \/ WorkerEmits

ForwardSpec == ForwardInit /\ [][ForwardNext]_vars

\* CliskPage.close() is called on the worker page, at any moment of its
\* reconnections and up to MaxClose times. The 100 ms wait of close() is too
\* short for a run to leave its 2 s wait and then finish the 3 s wait of its
\* handshake: a run in its 2 s wait leaves it once close() has returned.
CloseNext ==
    \/ closeOp.pc # "sleep" /\ Navigate(ctxGen + 1)
    \/ \E r \in DOMAIN runs :
          /\ closeOp.pc = "sleep" => runs[r].pc # "stabilize"
          /\ RunNext(r)
    \/ CloseBegin
    \/ CloseEnd

CloseSpec == Init /\ [][CloseNext]_vars

\* PlaywrightLauncher.init() at its Promise.all of the two initiateHandshake
\* calls; the variables of the later phases keep their values.
HandshakesInit ==
    /\ Launched
    /\ launcher = InitLauncher
    /\ forwarding = NoForwarding
    /\ emitted = NoListener
    /\ pages = [p \in PageNames |-> HandshakingPage(p)]
    /\ wire = {}

HandshakesNext ==
    \/ \E p \in PageNames : ParentHandshakeStart(p)
    \/ \E m \in Messages : ConnectorReceives(m)
    \/ \E p \in PageNames : ConnectorPing(p)
    \/ \E m \in Messages : SendToPlaywright(m)

HandshakesSpec == HandshakesInit /\ [][HandshakesNext]_vars

\* PlaywrightLauncher.init() from the construction of the two CliskPages: each
\* is initialized (possibly again) and does its handshake; once the worker page
\* is connected it navigates and reconnects.
BridgeInit ==
    /\ Launched
    /\ launcher = InitLauncher
    /\ forwarding = NoForwarding
    /\ emitted = NoListener
    /\ pages = [p \in PageNames |-> ConstructedPage(p)]
    /\ wire = {}

BridgeNext ==
    \/ \E p \in PageNames : PageInit(p)
    \/ \E p \in PageNames : InitiateHandshake(p)
    \/ \E p \in PageNames : ParentHandshakeStart(p)
    \/ \E m \in Messages : ConnectorReceives(m)
    \/ \E m \in Messages : SendToPlaywright(m)
    \/ pages["worker"].hs = "connected" /\ Navigate(ctxGen + 1)
    \/ \E r \in DOMAIN runs : OpenRunNext(r)

BridgeSpec == BridgeInit /\ [][BridgeNext]_vars

\* The launcher from its construction: init() launches, initializes the two
\* pages one after the other and runs their handshakes, or fails on the way;
\* stop() is called before, after or instead of all that, and any of its close
\* steps may throw.
LauncherInit ==
    /\ Launched
    /\ launcher = NewLauncher
    /\ forwarding = NoForwarding
    /\ emitted = NoListener
    /\ pages = [p \in PageNames |-> ConstructedPage(p)]
    /\ wire = {}

LauncherNext ==
    \/ \E ok \in BOOLEAN : \E got \in {{}, {"browser"}} : LauncherInitLaunch(ok, got)
    \/ \E p \in PageNames : LauncherPageInit(p)
    \/ LauncherHandshakes
    \/ \E p \in PageNames : ParentHandshakeStart(p)
    \/ \E m \in Messages : ConnectorReceives(m)
    \/ \E m \in Messages : SendToPlaywright(m)
    \/ LauncherInitDone
    \/ LauncherInitFail
    \/ \E fail \in {"none", "context", "browser"} : LauncherStop(fail)

LauncherSpec == LauncherInit /\ [][LauncherNext]_vars

\* The pilot connector saves files through localSaveFiles while the worker
\* page, which stays open, navigates.
SaveFilesNext ==
    \/ \E c \in Cmds : \E n \in 0..MaxEntries : InvokeLocalSaveFiles(c, n)
    \/ \E c \in Cmds : MkdirDone(c)
    \/ \E c \in Cmds : \E res \in {"ok", "AppError"} : SaveFilesCallReturn(c, res)
    \/ \E c \in Cmds : SaveFilesCtxDestroyed(c)
    \/ \E c \in Cmds : WriteDone(c)
    \/ Navigate(ctxGen + 1)
    \/ \E r \in DOMAIN runs : OpenRunNext(r)

SaveFilesSpec == Init /\ [][SaveFilesNext]_vars

\* The worker page by itself, its reconnection events listened to: it
\* navigates (main frame and sub-frame), monitoring is switched off and on,
\* the page may be closed from outside and manualReconnect() called then. The
\* listeners of one navigation run one after the other before anything else.
MonitorNext ==
    \/ \E u \in NavTargets : Navigate(u)
    \/ NextListener
    \/ listeners.left = 0 /\ SubFrameNavigate
    \/ listeners.left = 0 /\ \E r \in DOMAIN runs : RunNext(r)
    \/ listeners.left = 0 /\ DisableUrlMonitoring
    \/ listeners.left = 0 /\ EnableUrlMonitoring
    \/ listeners.left = 0 /\ PageGoesAway
    \/ listeners.left = 0 /\ ManualReconnect

MonitorSpec == ObservedInit /\ [][MonitorNext]_vars

\* C1: at most one run of handleUrlChange (teardown, re-injection, handshake)
\* is under way at any time.
C1_AtMostOneEpisode ==
    Cardinality({r \in DOMAIN runs : runs[r].pc # "done"}) <= 1

\* C2: an invocation made while a reconnection promise is pending issues no
\* remote call while that promise is pending, and the Session of its first call
\* was built after the promise was created.
C2_WaitsForNewSession ==
    \A c \in Cmds :
        cmds[c].episode # 0 =>
            /\ (currentReconnectionPromise.id = cmds[c].episode /\ ReconnectionPending)
                  => cmds[c].calls = 0
            /\ cmds[c].calls >= 1 => cmds[c].firstSess > cmds[c].sessAtEpisode

\* C3: resolve or reject is called at most once on a reconnection promise.
C3_SettledByOneCall == currentReconnectionPromise.settleCalls <= 1

\* C4: once the reconnection of the only navigation (to a new URL) has
\* succeeded, an invocation that has not ended is not waiting for a
\* reconnection, and the call it waits for can still be answered.
C4_CallStillAnswers ==
    \A c \in Cmds :
        (/\ ctxGen = 1 /\ Len(runs) = 1 /\ ~Active(runs[1])
         /\ currentReconnectionPromise.state = "resolved"
         /\ pageState = "open" /\ ~stopped
         /\ Pending(cmds[c]) /\ cmds[c].pc # "sleep") =>
            (cmds[c].pc = "call" /\ Reaches(cmds[c].sess) /\ cmds[c].calls <= 2)

\* C5: in the step that rejects the reconnection promise, every invocation that
\* waits for the reconnection ends with a rejection.
C5_FailureReachesWaiters ==
    [][(ReconnectionPending /\ currentReconnectionPromise'.state = "rejected")
          => \A c \in Cmds :
                cmds[c].pc \in {"prewait", "wait", "reconn"} =>
                    cmds'[c].pc = "done" /\ cmds'[c].result.kind \notin {"ok", "none"}]_vars

\* C6: while a reconnection promise is pending, some step of a handleUrlChange
\* run or one of its timers can still happen.
C6_PendingCanSettle ==
    ReconnectionPending => \E r \in DOMAIN runs : ENABLED RunNext(r)

\* C7: an invocation that was pending when the orchestrator stopped during a
\* pending reconnection has been rejected with a page-closed error, or a step
\* that it waits for can still happen.
C7_StopRejectsPending ==
    \A c \in Cmds :
        cmds[c].atStop =>
            IF cmds[c].pc = "done"
            THEN cmds[c].result.kind = "PageClosed"
            ELSE \/ ENABLED CmdNext(c)
                 \/ \E r \in DOMAIN runs : ENABLED RunNext(r)

\* C8: the command function is called at most maxRetries (3) times in one
\* invocation.
C8_AtMostThreeCalls == \A c \in Cmds : cmds[c].calls <= 3
C8_Witness == \E c \in Cmds : cmds[c].calls = 3 /\ cmds[c].preempts = 2

\* C9: an error of the command function that is not of the URL-change class
\* ends the invocation with that error at once: no further call, no wait.
C9_OtherErrorSurfaces ==
    \A c \in Cmds :
        cmds[c].fnErr \in {"AppError", "NoConnection"} =>
            /\ cmds[c].pc = "done"
            /\ cmds[c].result = [kind |-> cmds[c].fnErr, command |-> "", count |-> 0]
            /\ cmds[c].calls = cmds[c].fnErrCalls
C9_Witness ==
    \E c \in Cmds : cmds[c].fnErr = "AppError" /\ cmds[c].pc = "done" /\ cmds[c].calls = 2

\* C10: three attempts that each end in a preemption or a context-destroyed
\* error, each followed by a successful reconnection, end the invocation with
\* the error that names the command and the count 3; there is no fourth call.
C10_ExhaustionError ==
    \A c \in Cmds :
        (cmds[c].preempts = 3 /\ cmds[c].reconnOk = 3) =>
            /\ cmds[c].pc = "done"
            /\ cmds[c].result = [kind |-> "Exhausted", command |-> "runInWorker", count |-> 3]
            /\ cmds[c].calls = 3
C10_Witness ==
    \E c \in Cmds : cmds[c].preempts = 3 /\ cmds[c].reconnOk = 3 /\ cmds[c].pc = "done"

C13_ResolvesWithRequestedUrl ==
    \A c \in Cmds :
        (/\ cmds[c].command = "setWorkerState" /\ cmds[c].round = 1
         /\ \A d \in Cmds \ {c} : cmds[d].pc = "idle"
         /\ ~cmds[c].atUrl /\ cmds[c].quiet /\ ~cmds[c].busy /\ cmds[c].pc = "done"
         /\ ctxGen = cmds[c].ctx0 + 1
         /\ \/ Len(runs) = cmds[c].runs0
            \/ /\ Len(runs) = cmds[c].runs0 + 1
               /\ ~Active(runs[Len(runs)])
               /\ currentReconnectionPromise.state = "resolved"
         /\ cmds[c].result.kind # "WaitTimeout") =>
            /\ cmds[c].result.kind = "ok"
            /\ cmds[c].resultUrl = cmds[c].target
            /\ cmds[c].navs = 1
            /\ pageUrl = Href(cmds[c].target)

\* C14: after the navigation of a setWorkerState call made with no
\* reconnection under way and no other invocation, while the handshake of
\* the run it triggered has not completed, the call has not resolved: it has
\* been rejected after the handshake timeout (or its own 30 s timeout), or it
\* waits for the reconnection and the handshake timeout is still to fire.
C14_StuckHandshakeTimesOut ==
    \A c \in Cmds :
        (/\ cmds[c].command = "setWorkerState" /\ cmds[c].round = 1
         /\ \A d \in Cmds \ {c} : cmds[d].pc = "idle"
         /\ cmds[c].quiet /\ ~cmds[c].busy /\ cmds[c].navs = 1
         /\ Len(runs) = cmds[c].runs0 + 1
         /\ runs[Len(runs)].hs \in {"wait", "offer"}) =>
            IF cmds[c].pc = "done"
            THEN \/ cmds[c].result.kind = "ReconnectionFailed"
                    /\ cmds[c].cause = "HandshakeTimeout"
                 \/ cmds[c].result.kind = "WaitTimeout"
            ELSE /\ cmds[c].pc = "reconn" /\ cmds[c].listening
                 /\ ENABLED HandshakeTimeout(Len(runs))
C14_Witness ==
    \E c \in Cmds :
        /\ cmds[c].command = "setWorkerState" /\ cmds[c].round = 1
        /\ cmds[c].quiet /\ ~cmds[c].busy /\ cmds[c].navs = 1
        /\ Len(runs) = cmds[c].runs0 + 1 /\ runs[Len(runs)].hs = "offer"
        /\ cmds[c].pc = "done" /\ cmds[c].cause = "HandshakeTimeout"
        /\ currentReconnectionPromise.reason = "ReconnectionTimeout"

\* C15: once two navigations, the second made before the episode of the first
\* had ended, have both been handled on an open page, the one outcome they
\* share is settled, and it is success exactly if a handshake was completed
\* against the context of the final URL.
C15_OneOutcomeForFinalUrl ==
    (/\ Len(runs) = 2 /\ ctxGen = 2 /\ currentReconnectionPromise.id = 1
     /\ NumActive = 0 /\ pageState = "open" /\ ~stopped) =>
        /\ currentReconnectionPromise.state # "pending"
        /\ currentReconnectionPromise.state = "resolved"
              <=> \E s \in DOMAIN sessions : sessions[s].ctx = ctxGen

\* C17: while a handleUrlChange run is under way getReconnectionPromise gives
\* the promise of the field, and when none is under way it gives a promise
\* resolved with true.
C17_SentinelWhenIdle ==
    IF NumActive > 0
    THEN getReconnectionPromise = currentReconnectionPromise
    ELSE getReconnectionPromise.state = "resolved"

\* C18: at most one Session created for the worker page is open.
C18_AtMostOneOpenSession ==
    Cardinality({s \in DOMAIN sessions : ~sessions[s].closed}) <= 1

\* C16: after a single navigation of the worker from about:blank to another
\* URL whose run has ended without a reconnection:error, a listener has counted
\* exactly one reconnection:success, and the CliskPage holds a Session other
\* than the one it held before the navigation, open and built in the new
\* page context, while the earlier Session is closed.
C16_OneSuccessNewSession ==
    (/\ ctxGen = 1 /\ Len(runs) = 1 /\ NumActive = 0
     /\ emitted.on /\ emitted.error = 0) =>
        /\ emitted.success = 1
        /\ connection # 1 /\ connection = Len(sessions)
        /\ ~sessions[connection].closed /\ sessions[connection].ctx = ctxGen
        /\ sessions[1].closed
        /\ currentReconnectionPromise.state # "pending"
C16_Witness ==
    /\ ctxGen = 1 /\ Len(runs) = 1 /\ NumActive = 0
    /\ emitted.on /\ emitted.error = 0 /\ emitted.success = 1
    /\ pageUrl # Blank /\ connection = 2
    /\ currentReconnectionPromise.state = "resolved"

\* C19: once close() has returned, isInitialized is false and the Session
\* reference is null.
C19_CloseLeavesNoSession ==
    closeOp.pc = "done" => (~isInitialized /\ connection = 0)

\* C20: every message that reached the message handler of a CliskPage was
\* posted in that CliskPage's own page, the ping method of each CliskPage
\* answered with its own page name only, and the connector of each page got
\* ping answers naming its own page only.
C20_PagesIsolated ==
    \A p \in PageNames :
        /\ pages[p].heardFrom \subseteq {p}
        /\ pages[p].pingReplies \subseteq {p}
        /\ pages[p].connectorGot \subseteq {p}
C20_Witness ==
    \A p \in PageNames :
        /\ pages[p].connection
        /\ pages[p].heardFrom = {p}
        /\ pages[p].connectorGot = {p}

\* C21: the promise the field holds is replaced only by a handleUrlChange run
\* that finds no promise or one marked settled; a run that finds any other
\* promise keeps it, so while the outcome is pending the field holds, and
\* getReconnectionPromise returns, one and the same promise.
C21_CheckThenCreate ==
    /\ [](currentReconnectionPromise.id # 0 =>
             getReconnectionPromise = currentReconnectionPromise)
    /\ [][/\ currentReconnectionPromise.state = "pending" =>
                currentReconnectionPromise'.id = currentReconnectionPromise.id
          /\ currentReconnectionPromise'.id # currentReconnectionPromise.id =>
                /\ Len(runs') = Len(runs) + 1
                /\ NeedsNewPromise(currentReconnectionPromise)
                /\ currentReconnectionPromise'.id = currentReconnectionPromise.id + 1
          /\ (Len(runs') = Len(runs) + 1 /\ ~NeedsNewPromise(currentReconnectionPromise)) =>
                currentReconnectionPromise'.id = currentReconnectionPromise.id]_vars
C21_Witness ==
    /\ Len(runs) = 2 /\ NumActive = 2
    /\ currentReconnectionPromise.id = 1
    /\ currentReconnectionPromise.state = "pending"

\* C22: an invocation has issued at most one call more than the
\* reconnection:success events it has heard while waiting after a failed
\* attempt; a preemption by url-change adds exactly one to retryCount, issues
\* no call and starts the wait; and an invocation leaves that wait for another
\* attempt only in a step in which it hears reconnection:success, with
\* retryCount as the failed attempt left it.
C22_RetryAfterReconnection ==
    /\ [](\A c \in Cmds : cmds[c].calls <= cmds[c].reconnOk + 1)
    /\ [][\A c \in Cmds :
            /\ cmds'[c].preempts = cmds[c].preempts + 1 =>
                  /\ cmds'[c].retryCount = cmds[c].retryCount + 1
                  /\ cmds'[c].calls = cmds[c].calls
                  /\ cmds'[c].pc = "reconn" /\ cmds'[c].sess = 0
            /\ (cmds[c].pc = "reconn" /\ cmds'[c].pc \notin {"reconn", "done"}) =>
                  /\ cmds'[c].reconnOk = cmds[c].reconnOk + 1
                  /\ cmds'[c].retryCount = cmds[c].retryCount]_vars
C22_Witness ==
    \E c \in Cmds :
        /\ cmds[c].preempts = 2 /\ cmds[c].reconnOk = 2 /\ cmds[c].calls = 3
        /\ cmds[c].retryCount = 2 /\ cmds[c].pc = "done" /\ cmds[c].result.kind = "ok"

\* C23: a step in which an invocation issues a remote call leaves the call on
\* the Session this.connection holds in that step.
C23_CallsThroughCurrentSession ==
    [][\A c \in Cmds :
          (cmds'[c].calls = cmds[c].calls + 1 /\ cmds'[c].pc \in {"call", "sfcall"}) =>
              cmds'[c].sess = connection']_vars

\* C24: while no handleUrlChange run is under way and the page is closed or
\* monitoring is disabled, no step (a URL change handled then included)
\* creates or settles a promise, emits an event, or closes or replaces the
\* Session.
C24_ClosedOrDisabledIgnored ==
    [][(NumActive = 0 /\ (pageState = "closed" \/ ~isMonitoringEnabled)) =>
          UNCHANGED <<currentReconnectionPromise, emitted, connection, sessions>>]_vars

\* C25: once the only handleUrlChange run there has been is over and has left
\* the promise rejected, reconnection:error has been emitted.
C25_FailureEmitsError ==
    (Len(runs) = 1 /\ NumActive = 0 /\ currentReconnectionPromise.state = "rejected") =>
        emitted.error >= 1

\* C26: if reconnection:success has been emitted and there has been one
\* handleUrlChange run only, the promise of that run is resolved.
C26_SuccessOnlyForSuccess ==
    (Len(runs) = 1 /\ emitted.success >= 1) =>
        currentReconnectionPromise.state = "resolved"

\* C27: if the promise of the only handleUrlChange run there has been is
\* rejected by the ceiling timer, no reconnection:success has been emitted and
\* the Session is the one the run found.
C27_CeilingEndsEpisode ==
    (Len(runs) = 1 /\ currentReconnectionPromise.state = "rejected"
                   /\ currentReconnectionPromise.reason = "ReconnectionTimeout") =>
        (emitted.success = 0 /\ connection = 1)

\* C28: on a page close() is not called on, this.connection always holds a
\* Session; it changes only in the step in which ParentHandshake returns, to
\* the Session that handshake built, open at that moment; the step that starts
\* a handleUrlChange run leaves the reference as it was.
C28_SessionReplacedOnSuccessOnly ==
    /\ [](connection \in DOMAIN sessions)
    /\ [][/\ connection' # connection =>
                \E r \in DOMAIN runs :
                    /\ runs[r].hs = "offer" /\ runs'[r].hs = "setType"
                    /\ runs'[r].sess = connection'
                    /\ connection' = Len(sessions') /\ Len(sessions') = Len(sessions) + 1
                    /\ ~sessions'[connection'].closed
          /\ Len(runs') = Len(runs) + 1 => connection' = connection]_vars
C28_Witness ==
    /\ Len(runs) = 1 /\ runs[1].hs = "offer"
    /\ connection = 1 /\ sessions[1].closed

\* C29: a main-frame navigation of the worker page leaves currentUrl equal to
\* the new URL, and starts a handleUrlChange run (which emits url-change) if
\* and only if the new URL differs from the tracked one and is not about:blank,
\* monitoring being enabled; a sub-frame navigation changes nothing but the
\* sub-frame's URL.
C29_NavigationFilter ==
    [][/\ ctxGen' # ctxGen =>
            /\ currentUrl' = pageUrl'
            /\ (Len(runs') = Len(runs) + 1) <=>
                  (isMonitoringEnabled /\ pageUrl' # currentUrl /\ pageUrl' # Blank)
            /\ (emitted'.urlChange = emitted.urlChange + 1) <=>
                  (isMonitoringEnabled /\ pageUrl' # currentUrl /\ pageUrl' # Blank)
            /\ Len(runs') = Len(runs) => UNCHANGED <<promiseVars, emitted, sessions>>
       /\ subFrameUrl' # subFrameUrl =>
            UNCHANGED <<currentUrl, runs, promiseVars, emitted, connection, sessions>>]_vars
C29_Witness ==
    /\ isMonitoringEnabled /\ subFrameUrl = 1
    /\ ctxGen = 3 /\ pageUrl = Blank /\ currentUrl = Blank
    /\ Len(runs) = 1 /\ emitted.urlChange = 1

\* C30: on the page a CliskPage holds, each bridge function has been
\* registered at most once, and a step of a handleUrlChange run registers
\* nothing.
C30_BridgeRegisteredOnce ==
    /\ [](\A p \in PageNames : \A n \in BridgeNames : pages[p].exposed[n] <= 1)
    /\ [][runs' # runs => pages' = pages]_vars
C30_Witness ==
    /\ pages["worker"].inits = 1 /\ pages["worker"].hs = "connected"
    /\ \A n \in BridgeNames : pages["worker"].exposed[n] = 1
    /\ pages["pilot"].inits = 2
    /\ Len(sessions) = 3 /\ NumActive = 0

\* C33: a step of handleUrlChange run r (its timers included) that settles
\* the pending promise is a step of the run that created the promise or of a
\* later one, never of a run started before it.
C33_SettledByOwnRun ==
    [][\A r \in DOMAIN runs :
          (/\ Len(runs') = Len(runs) /\ runs'[r] # runs[r]
           /\ currentReconnectionPromise.state = "pending"
           /\ currentReconnectionPromise'.state # "pending") =>
              r >= currentReconnectionPromise.run]_vars

\* C34: when no handleUrlChange run is under way and the promise the field
\* holds is resolved or rejected, its settled marker is set.
C34_MarkerAgrees ==
    (NumActive = 0 /\ currentReconnectionPromise.state \in {"resolved", "rejected"}) =>
        currentReconnectionPromise.settled

\* C35: a first setWorkerState call made with no handleUrlChange run under way
\* and no other invocation, that has ended with no run started since it was
\* made, has not been rejected with a reconnection failure.
C35_PastFailureNotReported ==
    \A c \in Cmds :
        (/\ cmds[c].command = "setWorkerState" /\ cmds[c].round = 1
         /\ \A d \in Cmds \ {c} : cmds[d].pc = "idle"
         /\ cmds[c].quiet /\ cmds[c].pc = "done"
         /\ Len(runs) = cmds[c].runs0) =>
            /\ cmds[c].cause = "none"
            /\ cmds[c].result.kind \notin
                   {"WorkerReconnectionFailed", "ReconnectionFailed", "PageClosed",
                    "ReconnectionTimeout", "HandshakeTimeout", "HandshakeFailed",
                    "InjectError", "CtxDestroyed"}

\* C36: this.connection of the worker page changes only in a step taken while
\* the promise the field holds is pending.
C36_SessionStableOnceSettled ==
    [][connection' # connection =>
          currentReconnectionPromise.state = "pending"]_vars

\* C37: whenever this.connection of the worker page is an open Session, the
\* page's message handler is the listener of that Session.
C37_HandlerOfHeldSession ==
    (connection # 0 /\ ~sessions[connection].closed) => messageHandler = connection

\* C38: for one main-frame navigation, whatever the number of framenavigated
\* listeners registered, the listener that runs first emits at most one
\* url-change and starts at most one handleUrlChange run, and every listener
\* that runs after it emits nothing, starts no run and leaves the promise,
\* the Session and currentUrl as they were.
C38_ListenersDoNotMultiply ==
    [][/\ ctxGen' # ctxGen =>
            /\ Len(runs') <= Len(runs) + 1
            /\ emitted'.urlChange <= emitted.urlChange + 1
       /\ listeners'.ran # listeners.ran =>
            UNCHANGED <<runs, emitted, promiseVars, connection, sessions,
                        currentUrl>>]_vars
C38_Witness ==
    /\ listeners.n = 2 /\ listeners.ran = 1 /\ listeners.left = 0
    /\ ctxGen = 1 /\ Len(runs) = 1 /\ emitted.urlChange = 1

\* C31: when the setContentScriptType call at the end of a handshake is
\* answered with an error, the handshake still succeeds: in the same step
\* initiateHandshake returns (the page is connected), the new Session is still
\* the page's connection with its Dispatcher as message handler, and one
\* connection:success event is emitted.
C31_SetTypeFailureNotFatal ==
    [][\A p \in PageNames :
          (pages'[p].setTypeFailed /\ ~pages[p].setTypeFailed) =>
              /\ pages'[p].hs = "connected"
              /\ pages[p].connection /\ pages'[p].connection
              /\ pages'[p].messageHandler = "session"
              /\ pages'[p].successEvents = pages[p].successEvents + 1]_vars

C31_Witness ==
    \E p \in PageNames :
        /\ pages[p].setTypeFailed
        /\ pages[p].hs = "connected"
        /\ pages[p].connection
        /\ pages[p].successEvents = 1

C39_ForwardedExactlyOnce ==
    /\ (forwarding.events > 0 /\ forwarding.lastQuiet /\ forwarding.lastOk) =>
           forwarding.lastFwd = 1
    /\ \A s \in DOMAIN sessions : ForwardingListeners(forwarding, s) <= 1

C39_Witness ==
    /\ forwarding.events > 0
    /\ forwarding.lastQuiet /\ forwarding.lastOk
    /\ forwarding.lastFwd = 1
    /\ connection > 2
    /\ sessions[1].closed /\ sessions[2].closed
    /\ emitted.success >= 2

====
